---- MODULE Spec2Model ----
(***************************************************************************)
(* Beam search decoding of module/inference/beam_search.py (class          *)
(* BeamSearch).  Tensors are functions over 0-based index ranges, as in    *)
(* the source.  Probabilities are carried by their logarithms, in integer  *)
(* deci-nats (round(10 * ln p)); log 1 = 0 and log 0 = NegInf.             *)
(***************************************************************************)
EXTENDS Integers, Sequences, FiniteSets, TLC

(* ------------------------------ bounds --------------------------------- *)
\* len(batch): number of source sentences decoded together
BatchSize == 2
\* self.beam_size
BeamSize == 2
\* self.max_len
MaxLen == 4

(* ---------------------------- vocabulary ------------------------------- *)
\* self.TRG.vocab.stoi / itos
pad_tok == 0
init_tok == 1
eos_tok == 2
tok_a == 3
tok_b == 4
tok_unk == 5
Vocab == {pad_tok, init_tok, eos_tok, tok_a, tok_b, tok_unk}
itos == [v \in Vocab |-> CASE v = pad_tok -> "<pad>"
                           [] v = init_tok -> "<sos>"
                           [] v = eos_tok -> "<eos>"
                           [] v = tok_a -> "a"
                           [] v = tok_b -> "b"
                           [] v = tok_unk -> "<unk>"]

\* torch.log of the float32 value of 1e-100, which is 0: minus infinity
NegInf == -1000000
\* the filler token id of ix_rep
sentinel_id == -1

Batch == 0 .. (BatchSize - 1)
Beam == 0 .. (BeamSize - 1)
row_b == BeamSize * BatchSize
Rows == 0 .. (row_b - 1)
Cols == 0 .. (MaxLen - 1)

(* ------------------------- tensor arithmetic --------------------------- *)
\* float addition of log values: minus infinity absorbs
LogAdd(x, y) == IF x = NegInf \/ y = NegInf THEN NegInf ELSE x + y

ZeroBased(s) == [j \in 0 .. (Len(s) - 1) |-> s[j + 1]]

\* the elements of `rem` that a descending selection may take next
Largest(f, rem) == {x \in rem : \A y \in rem : f[y] <= f[x]}

\* torch.topk(k) along one axis, sorted descending: every index order the
\* routine may return (equal values may come in any order)
RECURSIVE topk_from(_, _, _)
topk_from(f, rem, k) ==
  IF k = 0 THEN {<<>>}
  ELSE UNION {{<<x>> \o rest : rest \in topk_from(f, rem \ {x}, k - 1)} :
              x \in Largest(f, rem)}

topk(f, k) == {ZeroBased(s) : s \in topk_from(f, DOMAIN f, k)}

\* one topk result per leading index 0 .. n-1 of t
RECURSIVE topk_upto(_, _, _)
topk_upto(t, k, n) ==
  IF n = 0 THEN {<<>>}
  ELSE LET last == topk(t[n - 1], k)
       IN UNION {{Append(g, x) : x \in last} : g \in topk_upto(t, k, n - 1)}

topk_rows(t, k) == {ZeroBased(g) : g \in topk_upto(t, k, Cardinality(DOMAIN t))}

(* ------------------------------ decoder -------------------------------- *)
\* softmax outputs of the external model, as log-probabilities per token
Dist(vals, order) == [v \in Vocab |-> vals[CHOOSE p \in 1 .. Len(order) : order[p] = v]]
PeakedVals == <<-5, -16, -23, -28, -32, -40>>
FlatVals == <<-12, -14, -16, -19, -23, -30>>
dist_a == Dist(PeakedVals, <<tok_a, eos_tok, tok_b, tok_unk, pad_tok, init_tok>>)
dist_ab == Dist(PeakedVals, <<tok_a, tok_b, eos_tok, tok_unk, pad_tok, init_tok>>)
dist_eos == Dist(PeakedVals, <<eos_tok, tok_a, tok_b, tok_unk, pad_tok, init_tok>>)
dist_flat == Dist(FlatVals, <<tok_b, tok_unk, tok_a, eos_tok, pad_tok, init_tok>>)

\* The decoder is deterministic given the source sentence and the prefix.
\* A table gives its distribution after a last token; which table applies to
\* a sentence at a timestep is drawn per sentence and timestep, so a
\* sentence's behaviour is any sequence of tables.
DecoderTables == {
  [v \in Vocab |-> IF v = init_tok THEN dist_a
                   ELSE IF v \in {tok_a, tok_b} THEN dist_flat ELSE dist_ab],
  [v \in Vocab |-> IF v = init_tok THEN dist_ab ELSE dist_eos] }

(* ------------------------------- state --------------------------------- *)
VARIABLES
  pc,            \* "start", "loop", "extract", "trimmed", "replaced", "done" or "raised"
  outputs,       \* [row_b, max_len] token ids
  log_scores,    \* [row_b] cumulative log-probabilities
  i,             \* the last timestep written
  out,           \* out[:, -1] of the last decoder call, per row
  prev_outputs,  \* outputs before the last compute_k_best
  prev_scores,   \* log_scores before the last compute_k_best
  row,           \* row.view(-1) of the last compute_k_best
  col,           \* col.view(-1) of the last compute_k_best
  cand_ix,       \* ix of the last compute_k_best, after torch.where
  cand_scores,   \* log_probs of the last compute_k_best
  visited,       \* the timesteps the loop ran, each with the column it wrote
  dec_sum,       \* per row: decoder log-probabilities of all its tokens, summed
  dec_sum_eos,   \* per row: the same sum, stopped after the first <eos>
  n_best,        \* argument of beam_search, once read
  length_norm,   \* its length_norm, once read: <<>> for None, else <<coff>>
  numpy_strict,  \* whether bool() of an empty array raises (NumPy >= 2.2)
  translated_sentences, \* [batch, beam] of token lists, as returned or reordered
  result,        \* the value beam_search returns
  vocab_size,    \* number of entries of the model's target vocabulary
  e_outputs,     \* [row_b] encoder context of each row, as the sentence it encodes
  origin,        \* per row: the sentence whose decoder output produced its hypothesis
  model_calls,   \* how often the encoder and the decoder have been invoked
  error,         \* the exception that ended the call, "" for none
  lockstep,      \* whether all sentences have been decoded alike so far
  replace_unk,   \* argument of beam_search, once read: "None", "False" or "selector"
  default_replace_unk, \* self._replace_unk: "None" or "selector"
  src_tokens,    \* argument of beam_search: <<>> for None, else the source words
  warned,        \* whether logging.warn has been called
  replace_calls, \* how often replace_unknown has been called
  as_strings,    \* whether the sentences have become single strings, not lists
  numpy_ragged,  \* whether np.array accepts lists of unequal length (NumPy < 1.24)
  ln_lengths,    \* a direct call of length_normalize: its lengths,
  ln_log_probs,  \*   its log_probs
  ln_coff,       \*   and its coff
  ln_calls,      \* how many times it has been called on them
  ln_first,      \* what the first call returned
  ln_second      \* what the second call returned

vars == <<pc, outputs, log_scores, i, out, prev_outputs, prev_scores, row, col,
          cand_ix, cand_scores, visited, dec_sum, dec_sum_eos, n_best,
          length_norm, numpy_strict, translated_sentences, result,
          vocab_size, e_outputs, origin, model_calls, error, lockstep,
          replace_unk, default_replace_unk, src_tokens, warned, replace_calls,
          as_strings, numpy_ragged,
          ln_lengths, ln_log_probs, ln_coff, ln_calls, ln_first, ln_second>>

ru_vars == <<replace_unk, default_replace_unk, src_tokens, warned, replace_calls,
             as_strings, numpy_ragged>>

ln_vars == <<ln_lengths, ln_log_probs, ln_coff, ln_calls, ln_first, ln_second>>

call_vars == <<pc, n_best, length_norm, numpy_strict, translated_sentences, result,
               vocab_size, model_calls, error, replace_unk, default_replace_unk,
               src_tokens, warned, replace_calls, as_strings, numpy_ragged>>

search_vars == <<outputs, log_scores, i, out, prev_outputs, prev_scores, row, col,
                 cand_ix, cand_scores, visited, dec_sum, dec_sum_eos,
                 e_outputs, origin, lockstep>>

zeros == [r \in Rows |-> [c \in Cols |-> 0]]
zero_scores == [r \in Rows |-> 0]

NoCall ==
  /\ ln_lengths = <<>>
  /\ ln_log_probs = <<>>
  /\ ln_coff = 0
  /\ ln_calls = 0
  /\ ln_first = <<>>
  /\ ln_second = <<>>

Idle ==
  /\ outputs = zeros
  /\ log_scores = zero_scores
  /\ i = 0
  /\ out = [r \in Rows |-> dist_flat]
  /\ prev_outputs = zeros
  /\ prev_scores = zero_scores
  /\ row = [r \in Rows |-> r]
  /\ col = [r \in Rows |-> 0]
  /\ cand_ix = [r \in Rows |-> [c \in Beam |-> 0]]
  /\ cand_scores = [r \in Rows |-> [c \in Beam |-> 0]]
  /\ visited = <<>>
  /\ dec_sum = zero_scores
  /\ dec_sum_eos = zero_scores
  /\ n_best = 1
  /\ length_norm = <<>>
  /\ numpy_strict = FALSE
  /\ translated_sentences = <<>>
  /\ result = <<>>
  /\ e_outputs = [r \in Rows |-> 0]
  /\ origin = [r \in Rows |-> 0]
  /\ model_calls = [encode |-> 0, decode |-> 0]
  /\ error = ""
  /\ lockstep = TRUE
  /\ replace_unk = "None"
  /\ default_replace_unk = "None"
  /\ src_tokens = <<>>
  /\ warned = FALSE
  /\ replace_calls = 0
  /\ as_strings = FALSE
  /\ numpy_ragged = FALSE

\* the models beam_search is run with: one with the whole vocabulary, one
\* whose vocabulary has fewer entries than the beam is wide
VocabSizes == {Cardinality(Vocab), BeamSize - 1}

Init == pc = "start" /\ Idle /\ NoCall /\ vocab_size \in VocabSizes

(* ------------------------------ init_vars ------------------------------ *)
\* mutant: the tensor is flattened beam by beam, as if it were [beam, batch]
view_flat_beam_major(x) == [r \in Rows |-> x[r % BatchSize][r \div BatchSize]]

\* x.view(-1) of a [batch, beam] tensor
view_flat(x) == [r \in Rows |-> x[r \div BeamSize][r % BeamSize]]

\* outputs after init_vars, from ix = the top beam_size tokens per sentence
init_outputs(ix) ==
  [r \in Rows |-> [c \in Cols |-> IF c = 0 THEN init_tok
                                  ELSE IF c = 1 THEN view_flat(ix)[r]
                                  ELSE 0]]

\* log_scores after init_vars
init_scores(first, ix) ==
  view_flat([b \in Batch |-> [j \in Beam |-> first[b][ix[b][j]]]])

\* mutant: the contexts are repeated as a whole (x.repeat), not one by one
repeat_whole(x) == [r \in Rows |-> x[r % BatchSize]]

\* torch.repeat_interleave(x, beam_size, 0)
repeat_interleave(x) == [r \in Rows |-> x[r \div BeamSize]]

\* model.encode(src, src_mask): the context of a sentence, named by the sentence
e_output == [b \in Batch |-> b]

\* topk(k) of a tensor with fewer than k entries raises RuntimeError
topk_out_of_range(size, k) == k > size

\* init_vars with a decoder that answers from Tables
InitVarsWith(Tables) ==
  /\ pc = "start"
  /\ model_calls' = [encode |-> 1, decode |-> 1]
  /\ IF topk_out_of_range(vocab_size, BeamSize)
     THEN /\ pc' = "raised"
          /\ error' = "RuntimeError"
          /\ UNCHANGED <<outputs, log_scores, i, out, dec_sum, dec_sum_eos,
                         e_outputs, origin, lockstep>>
     ELSE /\ \E tb \in [Batch -> Tables] :
               LET first == [b \in Batch |-> tb[b][init_tok]]
               IN \E ix \in topk_rows(first, BeamSize) :
                    /\ outputs' = init_outputs(ix)
                    /\ log_scores' = init_scores(first, ix)
                    /\ out' = [r \in Rows |-> first[r \div BeamSize]]
                    /\ dec_sum' = init_scores(first, ix)
                    /\ dec_sum_eos' = init_scores(first, ix)
                    /\ lockstep' = \A b \in Batch : tb[b] = tb[0] /\ ix[b] = ix[0]
          /\ e_outputs' = repeat_interleave(e_output)
          /\ origin' = view_flat([b \in Batch |-> [j \in Beam |-> b]])
          /\ i' = 1
          /\ pc' = IF 2 < MaxLen THEN "loop" ELSE "extract"
          /\ UNCHANGED error
  /\ UNCHANGED <<prev_outputs, prev_scores, row, col, cand_ix, cand_scores,
                 visited, n_best, length_norm, numpy_strict,
                 translated_sentences, result, vocab_size>>
  /\ UNCHANGED ru_vars
  /\ UNCHANGED ln_vars

InitVars == InitVarsWith(DecoderTables)

(* ---------------------------- compute_k_best --------------------------- *)
\* mutant: the fillers get probability 1 as well
probs_rep_all_one == [c \in Beam |-> 0]

probs_rep == [c \in Beam |-> IF c = 0 THEN 0 ELSE NegInf]
ix_rep == [c \in Beam |-> IF c = 0 THEN eos_tok ELSE sentinel_id]

\* mutant: the finished test reads the column being written, not the one before
check_eos_current_column(o, t) == [r \in Rows |-> o[r][t] = eos_tok]

check_eos(o, t) == [r \in Rows |-> o[r][t - 1] = eos_tok]

\* torch.where(check_eos, probs_rep, probs)
where_probs(chk, dist, sel) ==
  [r \in Rows |-> IF chk[r] THEN probs_rep ELSE [c \in Beam |-> dist[r][sel[r][c]]]]

\* torch.where(check_eos, ix_rep, ix)
where_ix(chk, sel) == [r \in Rows |-> IF chk[r] THEN ix_rep ELSE sel[r]]

\* mutant: the parent's score is not added
add_scores_dropped(probs, scores) == [r \in Rows |-> probs[r]]

\* torch.log(probs) + log_scores
add_scores(probs, scores) ==
  [r \in Rows |-> [c \in Beam |-> LogAdd(probs[r][c], scores[r])]]

\* log_probs.view(batch_size, -1)
view_batch(lp) ==
  [b \in Batch |-> [j \in 0 .. (BeamSize * BeamSize - 1) |->
                      lp[b * BeamSize + j \div BeamSize][j % BeamSize]]]

\* mutant: the batch offset is left out
row_of_no_offset(k_ix) == [b \in Batch |-> [j \in Beam |-> k_ix[b][j] \div BeamSize]]

\* row = k_ix // beam_size + [[v * beam_size] for v in range(batch_size)]
row_of(k_ix) == [b \in Batch |-> [j \in Beam |-> k_ix[b][j] \div BeamSize + b * BeamSize]]

\* mutant: the column is taken by division, like the row
col_of_by_division(k_ix) == [b \in Batch |-> [j \in Beam |-> k_ix[b][j] \div BeamSize]]

\* col = k_ix % beam_size
col_of(k_ix) == [b \in Batch |-> [j \in Beam |-> k_ix[b][j] % BeamSize]]

\* mutant: the new token is written one column too far
reorder_into_next_column(o, t, ix, rw, cl) ==
  [r \in Rows |-> [c \in Cols |-> IF c < t THEN o[rw[r]][c]
                                  ELSE IF c = t + 1 THEN ix[rw[r]][cl[r]]
                                  ELSE o[r][c]]]

\* outputs[:, :i] = outputs[row, :i]; outputs[:, i] = ix[row, col]
reorder(o, t, ix, rw, cl) ==
  [r \in Rows |-> [c \in Cols |-> IF c < t THEN o[rw[r]][c]
                                  ELSE IF c = t THEN ix[rw[r]][cl[r]]
                                  ELSE o[r][c]]]

\* every result compute_k_best may return, with its intermediate tensors
compute_k_best(o, dist, scores, t) ==
  LET chk == check_eos(o, t)
  IN UNION {
       LET probs == where_probs(chk, dist, sel)
           ix == where_ix(chk, sel)
           log_probs == add_scores(probs, scores)
           flat == view_batch(log_probs)
       IN {[outputs |-> reorder(o, t, ix, view_flat(row_of(k_ix)), view_flat(col_of(k_ix))),
            log_scores |-> view_flat([b \in Batch |-> [j \in Beam |-> flat[b][k_ix[b][j]]]]),
            row |-> view_flat(row_of(k_ix)),
            col |-> view_flat(col_of(k_ix)),
            ix |-> ix,
            log_probs |-> log_probs] : k_ix \in topk_rows(flat, BeamSize)}
       : sel \in topk_rows(dist, BeamSize)}

(* ----------------------------- search loop ----------------------------- *)
\* mutant: the exit test is made on the first sentence's rows only
all_finished_first_item(o, t) == \A r \in 0 .. (BeamSize - 1) : o[r][t] = eos_tok

\* torch.equal(outputs[:, i], is_finished)
all_finished(o, t) == \A r \in Rows : o[r][t] = eos_tok

has_eos(tokens, upto) == \E c \in 1 .. upto : tokens[c] = eos_tok

\* whether the rows of every sentence equal those of the first sentence
alike(x) == \A r \in Rows : x[r] = x[r % BeamSize]

\* one pass of the loop of beam_search, with a decoder that answers from Tables
StepWith(Tables) ==
  /\ pc = "loop"
  /\ i + 1 < MaxLen
  /\ \E tb \in [Batch -> Tables] :
       LET t == i + 1
           dist == [r \in Rows |-> tb[e_outputs[r]][outputs[r][t - 1]]]
       IN \E res \in compute_k_best(outputs, dist, log_scores, t) :
            LET lp(r) == IF res.outputs[r][t] \in Vocab
                         THEN dist[res.row[r]][res.outputs[r][t]] ELSE NegInf
            IN
            /\ outputs' = res.outputs
            /\ log_scores' = res.log_scores
            /\ out' = dist
            /\ row' = res.row
            /\ col' = res.col
            /\ cand_ix' = res.ix
            /\ cand_scores' = res.log_probs
            /\ dec_sum' = [r \in Rows |-> LogAdd(dec_sum[res.row[r]], lp(r))]
            /\ dec_sum_eos' = [r \in Rows |->
                 IF has_eos(outputs[res.row[r]], t - 1)
                 THEN dec_sum_eos[res.row[r]]
                 ELSE LogAdd(dec_sum_eos[res.row[r]], lp(r))]
            /\ visited' = Append(visited, <<t, [r \in Rows |-> res.outputs[r][t]]>>)
            /\ origin' = [r \in Rows |-> origin[res.row[r]]]
            /\ lockstep' = /\ lockstep
                           /\ \A b \in Batch : tb[b] = tb[0]
                           /\ alike(res.outputs) /\ alike(res.log_scores)
                           /\ alike([r \in Rows |-> res.row[r] % BeamSize])
            /\ pc' = IF all_finished(res.outputs, t) THEN "extract"
                     ELSE IF t + 1 < MaxLen THEN "loop" ELSE "extract"
  /\ i' = i + 1
  /\ prev_outputs' = outputs
  /\ prev_scores' = log_scores
  /\ model_calls' = [model_calls EXCEPT !.decode = @ + 1]
  /\ UNCHANGED <<n_best, length_norm, numpy_strict, translated_sentences, result,
                 vocab_size, e_outputs, error>>
  /\ UNCHANGED ru_vars
  /\ UNCHANGED ln_vars

Step == StepWith(DecoderTables)

(* ------------------------------- _length ------------------------------ *)
Raised == [ok |-> FALSE, val |-> 0]
Returned(v) == [ok |-> TRUE, val |-> v]

\* eos, = np.nonzero(tokens == eos_tok); return len(tokens) if not eos else eos[0]
\* `not eos` of an array: raises ValueError for more than one element, is the
\* negated element for one, and for none is True with a deprecation warning
\* (NumPy < 2.2) or raises ValueError (NumPy >= 2.2, `strict`).
_length(tokens, strict) ==
  LET eos == {c \in DOMAIN tokens : tokens[c] = eos_tok}
      len == Cardinality(DOMAIN tokens)
  IN IF eos = {} THEN (IF strict THEN Raised ELSE Returned(len))
     ELSE IF Cardinality(eos) > 1 THEN Raised
     ELSE LET first == CHOOSE c \in eos : TRUE
          IN IF first = 0 THEN Returned(len) ELSE Returned(first)

\* self.TRG.vocab.itos[i], a Python list: a negative index counts from the end
itos_at(v) == IF v \in Vocab THEN itos[v] ELSE itos[v + Cardinality(Vocab)]

\* trim_and_itos: [itos[i] for i in sent[1:_length(sent)]]
trim_and_itos(sent, strict) ==
  LET n == _length(sent, strict)
  IN IF ~n.ok THEN [ok |-> FALSE, val |-> <<>>]
     ELSE [ok |-> TRUE, val |-> [k \in 1 .. (n.val - 1) |-> itos_at(sent[k])]]

(* --------------------------- length_normalize -------------------------- *)
RECURSIVE Pow(_, _)
Pow(x, n) == IF n = 0 THEN 1 ELSE x * Pow(x, n - 1)

\* log_probs / ((lengths + 5) / 6) ** coff, as an exact fraction (coff a
\* natural number, the denominator positive)
penalize(len, log_prob, coff) ==
  [num |-> log_prob * Pow(6, coff), den |-> Pow(len + 5, coff)]

Less(p, q) == p.num * q.den < q.num * p.den

\* np.argsort along the last axis, ascending.  NumPy sorts fewer than 16
\* elements by insertion, which keeps equal elements in index order.
RECURSIVE insertion_sort(_, _)
insertion_sort(v, n) ==
  IF n = 0 THEN <<>>
  ELSE LET s == insertion_sort(v, n - 1)
           x == n - 1
           p == Cardinality({j \in 1 .. Len(s) : ~Less(v[x], v[s[j]])})
       IN SubSeq(s, 1, p) \o <<x>> \o SubSeq(s, p + 1, Len(s))

\* mutant: the index of a sorted value is looked up by value, so equal
\* values all get the first index that holds them
argsort_by_value_lookup(v) ==
  LET s == insertion_sort(v, Cardinality(DOMAIN v))
      first_with(x) == CHOOSE y \in DOMAIN v :
                         /\ ~Less(v[y], v[x]) /\ ~Less(v[x], v[y])
                         /\ \A z \in DOMAIN v : (~Less(v[z], v[x]) /\ ~Less(v[x], v[z])) => y <= z
  IN [j \in 0 .. (Len(s) - 1) |-> first_with(s[j + 1])]

argsort(v) == ZeroBased(insertion_sort(v, Cardinality(DOMAIN v)))

\* x[::-1]: reversal along the first axis
reverse_first_axis(x) ==
  LET n == Cardinality(DOMAIN x) IN [b \in DOMAIN x |-> x[n - 1 - b]]

length_normalize(lengths, log_probs, coff) ==
  LET penalized_probs ==
        [b \in DOMAIN log_probs |-> [k \in DOMAIN log_probs[b] |->
           penalize(lengths[b][k], log_probs[b][k], coff)]]
      indices == reverse_first_axis([b \in DOMAIN log_probs |-> argsort(penalized_probs[b])])
      reorganized_probs ==
        [b \in DOMAIN log_probs |-> [k \in DOMAIN indices[b] |->
           penalized_probs[b][indices[b][k]]]]
  IN [probs |-> reorganized_probs, indices |-> indices]

(* ------------------- length_normalize called directly ------------------ *)
\* a hypothesis as length_normalize sees it: <<length, log-probability>>
LnCells == {<<2, -21>>, <<3, -24>>, <<4, -24>>}
Coffs == {0, 1, 2}

InitLN ==
  /\ pc = "normalizer"
  /\ Idle
  /\ vocab_size = Cardinality(Vocab)
  /\ \E cells \in [Batch -> [Beam -> LnCells]] :
       /\ ln_lengths = [b \in Batch |-> [k \in Beam |-> cells[b][k][1]]]
       /\ ln_log_probs = [b \in Batch |-> [k \in Beam |-> cells[b][k][2]]]
  /\ ln_coff \in Coffs
  /\ ln_calls = 0
  /\ ln_first = <<>>
  /\ ln_second = <<>>

Normalize ==
  /\ pc = "normalizer"
  /\ ln_calls = 0
  /\ ln_first' = length_normalize(ln_lengths, ln_log_probs, ln_coff)
  /\ ln_calls' = 1
  /\ UNCHANGED <<ln_lengths, ln_log_probs, ln_coff, ln_second>>
  /\ UNCHANGED <<call_vars, search_vars>>

NormalizeAgain ==
  /\ pc = "normalizer"
  /\ ln_calls = 1
  /\ ln_second' = length_normalize(ln_lengths, ln_log_probs, ln_coff)
  /\ ln_calls' = 2
  /\ UNCHANGED <<ln_lengths, ln_log_probs, ln_coff, ln_first>>
  /\ UNCHANGED <<call_vars, search_vars>>

NextLN == Normalize \/ NormalizeAgain

SpecLN == InitLN /\ [][NextLN]_vars

(* ------------------------- beam_search, the rest ----------------------- *)
\* x.reshape((batch_size, beam_size, ...)) of a per-row tensor
reshape_batch(x) == [b \in Batch |-> [k \in Beam |-> x[b * BeamSize + k]]]

\* np.array([beams[ids] for beams, ids in zip(translated_sentences, indices)])
take_by(sentences, indices) ==
  [b \in Batch |-> [k \in Beam |-> sentences[b][indices[b][k]]]]

Min(x, y) == IF x < y THEN x ELSE y

\* mutant: the last beam is taken for the first
select_best_last(sentences, nb) ==
  IF nb = 1 THEN [b \in Batch |-> sentences[b][BeamSize - 1]]
  ELSE [b \in Batch |-> [k \in 0 .. (Min(nb, BeamSize) - 1) |-> sentences[b][BeamSize - 1 - k]]]

\* translated_sentences[:, 0] if n_best == 1 else translated_sentences[:, :n_best]
select_best(sentences, nb) ==
  IF nb = 1 THEN [b \in Batch |-> sentences[b][0]]
  ELSE [b \in Batch |-> [k \in 0 .. (Min(nb, BeamSize) - 1) |-> sentences[b][k]]]

\* arguments of beam_search
NBests == 1 .. (BeamSize + 1)
LengthNorms == {<<>>, <<1>>}

\* the reshape and the trimming after the loop
Trim ==
  /\ pc = "extract"
  /\ \E strict \in BOOLEAN :
       LET trimmed == [r \in Rows |-> trim_and_itos(outputs[r], strict)]
           fine == \A r \in Rows : trimmed[r].ok
       IN /\ numpy_strict' = strict
          /\ pc' = IF fine THEN "trimmed" ELSE "raised"
          /\ error' = IF fine THEN error ELSE "ValueError"
          /\ translated_sentences' =
               IF fine THEN reshape_batch([r \in Rows |-> trimmed[r].val]) ELSE <<>>
  /\ UNCHANGED <<n_best, length_norm, result, vocab_size, model_calls>>
  /\ UNCHANGED ru_vars
  /\ UNCHANGED search_vars
  /\ UNCHANGED ln_vars

(* --------------------------- replace_unknown --------------------------- *)
\* number of words of a source sentence
SrcLen == 2

\* the source sentences in words, [batch_size, src_len]
Words == <<"s0", "s1", "s2", "s3">>
sentences_of_batch ==
  [b \in Batch |-> [p \in 0 .. (SrcLen - 1) |->
     IF p = 0 THEN Words[(b % Len(Words)) + 1] ELSE "s"]]

\* the decoder input outputs[:, :i] that the last attention was computed from
attn == [r \in Rows |-> [c \in 0 .. (i - 1) |-> prev_outputs[r][c]]]

\* torch.argmax(used_attention, dim=-1): the source position each target
\* position attends to most, a function of the decoder input of the row
AttentionKinds == {"first", "by_token"}
select_id_src(kind) ==
  [r \in Rows |-> [p \in DOMAIN attn[r] |->
     IF kind = "first" \/ attn[r][p] = tok_a THEN 0 ELSE SrcLen - 1]]

\* zip(repl, orig): as long as the shorter of the two
zip_replace(orig, repl, unknown_token) ==
  [k \in 1 .. Min(Len(orig), Cardinality(DOMAIN repl)) |->
     IF orig[k] # unknown_token THEN orig[k] ELSE repl[k - 1]]

\* replace_unknown(outputs, sentences, attn, selector_tuple).  np.array of
\* lists of one length is a 2-d array of strings, whose reshape to [batch,
\* beam] raises unless that length is 1; np.array of lists of unequal length
\* is an array of lists (NumPy < 1.24) or raises ValueError.
replace_unknown(outs, sentences, select, ragged_ok) ==
  LET flattened_outputs == [r \in Rows |-> outs[r \div BeamSize][r % BeamSize]]
      beam_size == Cardinality(DOMAIN select) \div Cardinality(DOMAIN sentences)
      replace_tokens == [r \in Rows |-> [p \in DOMAIN select[r] |->
                           sentences[r \div beam_size][select[r][p]]]]
      replaced == [r \in Rows |->
                     zip_replace(flattened_outputs[r], replace_tokens[r], "<unk>")]
      lens == {Len(replaced[r]) : r \in Rows}
      val == reshape_batch(replaced)
  IN IF Cardinality(lens) = 1
     THEN [ok |-> lens = {1}, val |-> val, strings |-> TRUE]
     ELSE [ok |-> ragged_ok, val |-> val, strings |-> FALSE]

\* arguments of beam_search and of the constructor: <<replace_unk, self._replace_unk>>
ReplaceUnkArgs == {<<"None", "None">>, <<"False", "selector">>,
                   <<"None", "selector">>, <<"selector", "None">>}

\* mutant: the constructor's default is not consulted
requested_by_argument_only(arg, default) == arg = "selector"

\* if replace_unk is None: replace_unk = self._replace_unk; if replace_unk: ...
requested(arg, default) == (IF arg = "None" THEN default ELSE arg) = "selector"

\* lines 214-223 of beam_search
ReplaceUnk ==
  /\ pc = "trimmed"
  /\ \E args \in ReplaceUnkArgs, given \in BOOLEAN :
       /\ requested(args[1], args[2]) \/ ~given
       /\ replace_unk' = args[1]
       /\ default_replace_unk' = args[2]
       /\ src_tokens' = IF given THEN sentences_of_batch ELSE <<>>
       /\ IF ~requested(args[1], args[2])
          THEN /\ pc' = "replaced"
               /\ UNCHANGED <<translated_sentences, warned, replace_calls, as_strings,
                              numpy_ragged, error>>
          ELSE IF ~given
          THEN /\ pc' = "replaced"
               /\ warned' = TRUE
               /\ UNCHANGED <<translated_sentences, replace_calls, as_strings,
                              numpy_ragged, error>>
          ELSE IF visited = <<>>
          THEN \* the loop never ran: attn is not bound
               /\ pc' = "raised"
               /\ error' = "UnboundLocalError"
               /\ UNCHANGED <<translated_sentences, warned, replace_calls, as_strings,
                              numpy_ragged>>
          ELSE \E kind \in AttentionKinds, ragged_ok \in BOOLEAN :
                 LET res == replace_unknown(translated_sentences, sentences_of_batch,
                                            select_id_src(kind), ragged_ok)
                 IN /\ ragged_ok => ~numpy_strict
                    /\ numpy_ragged' = ragged_ok
                    /\ replace_calls' = replace_calls + 1
                    /\ pc' = IF res.ok THEN "replaced" ELSE "raised"
                    /\ error' = IF res.ok THEN error ELSE "ValueError"
                    /\ translated_sentences' =
                         IF res.ok THEN res.val ELSE translated_sentences
                    /\ as_strings' = (res.ok /\ res.strings)
                    /\ UNCHANGED warned
  /\ UNCHANGED <<n_best, length_norm, numpy_strict, result, vocab_size, model_calls>>
  /\ UNCHANGED search_vars
  /\ UNCHANGED ln_vars

Return ==
  /\ pc = "replaced"
  /\ \E nb \in NBests, ln \in LengthNorms :
       LET lengths == reshape_batch([r \in Rows |-> _length(outputs[r], numpy_strict).val])
           normalized == length_normalize(lengths, reshape_batch(log_scores), ln[1])
           final == IF ln = <<>> THEN translated_sentences
                    ELSE take_by(translated_sentences, normalized.indices)
       IN /\ length_norm' = ln
          /\ n_best' = nb
          /\ translated_sentences' = final
          /\ result' = select_best(final, nb)
          /\ pc' = "done"
  /\ UNCHANGED <<numpy_strict, vocab_size, model_calls, error>>
  /\ UNCHANGED ru_vars
  /\ UNCHANGED search_vars
  /\ UNCHANGED ln_vars

Next == InitVars \/ Step \/ Trim \/ ReplaceUnk \/ Return

Spec == Init /\ [][Next]_vars

(* ------------------- beam_search with the toy decoder ------------------ *)
\* A decoder that gives probability 0.9 (log -1 in deci-nats) to "a" at the
\* first position and 0.9 to <eos> at every later one; the rest is spread
\* over the other tokens in one of two ways, and "<unk>" is not in its
\* vocabulary (probability 0).
ToyVals == <<-1, -30, -35, -42, -53, NegInf>>
toy_first_b == Dist(ToyVals, <<tok_a, tok_b, eos_tok, pad_tok, init_tok, tok_unk>>)
toy_first_eos == Dist(ToyVals, <<tok_a, eos_tok, tok_b, pad_tok, init_tok, tok_unk>>)
toy_later_b == Dist(ToyVals, <<eos_tok, tok_b, tok_a, pad_tok, init_tok, tok_unk>>)
toy_later_a == Dist(ToyVals, <<eos_tok, tok_a, tok_b, pad_tok, init_tok, tok_unk>>)

ToyTables ==
  {[v \in Vocab |-> IF v = init_tok THEN first ELSE later] :
     first \in {toy_first_b, toy_first_eos}, later \in {toy_later_b, toy_later_a}}

InitToy == pc = "start" /\ Idle /\ NoCall /\ vocab_size = Cardinality(Vocab)

ToyInitVars == InitVarsWith(ToyTables)

ToyStep == StepWith(ToyTables)

NextToy == ToyInitVars \/ ToyStep \/ Trim \/ ReplaceUnk \/ Return

SpecToy == InitToy /\ [][NextToy]_vars


(* ============================== properties ============================= *)
RowsOf(b) == {b * BeamSize + k : k \in Beam}
\* the state right after a compute_k_best step
Stepped == i >= 2 /\ pc \in {"loop", "extract"}

(* C1: after compute_k_best at timestep t, a row whose hypothesis has <eos>
   in column t-1 has <eos> in column t, and its score is the score its parent
   row had before the step. *)
C1_FinishedRowKeepsEosAndScore ==
  Stepped =>
    \A r \in Rows :
      outputs[r][i - 1] = eos_tok =>
        /\ outputs[r][i] = eos_tok
        /\ log_scores[r] = prev_scores[row[r]]

C1_Witness ==
  /\ Stepped
  /\ \E r \in Rows : outputs[r][i - 1] = eos_tok /\ prev_outputs[row[r]][i - 1] = eos_tok

Finished(p) == prev_outputs[p][i - 1] = eos_tok
Survivor(r) == <<row[r], outputs[r][i], log_scores[r]>>
TopTokens(d) == {v \in Vocab : Cardinality({w \in Vocab : d[w] > d[v]}) < BeamSize}
Candidates(p) ==
  IF Finished(p)
  THEN {<<p, eos_tok, prev_scores[p]>>, <<p, sentinel_id, NegInf>>}
  ELSE {<<p, v, out[p][v] + prev_scores[p]>> : v \in TopTokens(out[p])}
CandidateScores(b) ==
  UNION {{<<p, c, cand_scores[p][c]>> : c \in Beam} : p \in RowsOf(b)}

(* C2: in every compute_k_best step the K survivors of a batch item are K
   distinct candidates of that item, each candidate being a top-K token of a
   parent row (or the forced <eos> of a finished one) scored log-probability
   plus parent score, and their scores are the K highest of the item's K*K
   candidate scores. *)
C2_SurvivorsAreTopK ==
  Stepped =>
    \A b \in Batch :
      /\ \A p \in RowsOf(b) :
           {<<p, cand_ix[p][c], cand_scores[p][c]>> : c \in Beam} = Candidates(p)
      /\ \A r \in RowsOf(b) : Survivor(r) \in Candidates(row[r]) /\ row[r] \in RowsOf(b)
      /\ \A r1, r2 \in RowsOf(b) : r1 # r2 => Survivor(r1) # Survivor(r2)
      /\ \A x \in CandidateScores(b) :
           Cardinality({r \in RowsOf(b) : log_scores[r] >= x[3]}) =
             Min(BeamSize, Cardinality({y \in CandidateScores(b) : y[3] >= x[3]}))

C2_Witness ==
  /\ Stepped
  /\ \E b \in Batch : \E p, q \in RowsOf(b) :
       /\ Cardinality({r \in Rows : row[r] = p}) > 1
       /\ {r \in Rows : row[r] = q} = {}
       /\ ~Finished(q)

(* C3: in every compute_k_best step the parent row copied into row r belongs
   to r's batch item, and row r holds that parent's prefix. *)
C3_ParentInSameBatchItem ==
  Stepped =>
    \A r \in Rows :
      /\ row[r] \div BeamSize = r \div BeamSize
      /\ \A c \in 0 .. (i - 1) : outputs[r][c] = prev_outputs[row[r]][c]

C3_Witness ==
  /\ Stepped
  /\ \E r \in Rows : r \div BeamSize > 0 /\ row[r] # r

(* C4 as stated: at every timestep reached, the score of a row is the sum,
   over all its written columns, of the log-probability the decoder gave the
   token in that column. *)
C4_ScoreIsSumOfAllColumns ==
  i >= 1 => \A r \in Rows : log_scores[r] = dec_sum[r]

(* C4 amended: the score of a row is the sum of the decoder's
   log-probabilities of its tokens up to and including its first <eos>;
   columns after the first <eos> add nothing. *)
C4_ScoreIsSumUpToFirstEos ==
  i >= 1 => \A r \in Rows : log_scores[r] = dec_sum_eos[r]

C4_Witness ==
  /\ Stepped
  /\ \E r \in Rows : has_eos(outputs[r], i - 1) /\ dec_sum[r] # dec_sum_eos[r]
  /\ \E r \in Rows : ~has_eos(outputs[r], i)

FirstEos(tokens) ==
  IF has_eos(tokens, MaxLen - 1)
  THEN CHOOSE c \in 1 .. (MaxLen - 1) :
         tokens[c] = eos_tok /\ \A d \in 1 .. (c - 1) : tokens[d] # eos_tok
  ELSE MaxLen
ExpectedSentence(tokens) == [k \in 1 .. (FirstEos(tokens) - 1) |-> itos[tokens[k]]]
(* C5: trimming a row the search loop can leave returns the tokens of
   columns 1 up to, not including, the column of its first <eos> (columns
   1 .. max_len-1 when it has none), and never fails.  Stated for the NumPy
   behaviour in which an empty array is false. *)
C5_TrimmingCutsAtFirstEos ==
  pc = "extract" =>
    \A r \in Rows :
      /\ trim_and_itos(outputs[r], FALSE).ok
      /\ trim_and_itos(outputs[r], FALSE).val = ExpectedSentence(outputs[r])

AllEos(column) == \A r \in Rows : column[r] = eos_tok
(* C6: the loop runs timesteps 2, 3, ... in order, at most max_len-2 of them;
   it goes on after a timestep only if some row's column is not <eos>, and
   it is left only after timestep max_len-1 or after a timestep at which
   every row's column is <eos>. *)
C6_LoopExit ==
  /\ Len(visited) <= MaxLen - 2
  /\ \A k \in 1 .. Len(visited) : visited[k][1] = k + 1
  /\ \A k \in 1 .. (Len(visited) - 1) : ~AllEos(visited[k][2])
  /\ pc = "loop" =>
       /\ i = Len(visited) + 1
       /\ i < MaxLen - 1
       /\ visited # <<>> => ~AllEos(visited[Len(visited)][2])
  /\ (i >= 1 /\ pc \in {"extract", "trimmed", "replaced", "done", "raised"}) =>
       /\ visited # <<>>
       /\ i = visited[Len(visited)][1]
       /\ i = MaxLen - 1 \/ AllEos(visited[Len(visited)][2])

C6_Witness ==
  /\ pc = "extract"
  /\ i < MaxLen - 1
  /\ AllEos(visited[Len(visited)][2])

ScoreRank(b, k, j) ==
  /\ Cardinality({m \in Beam : log_scores[b * BeamSize + m] > log_scores[b * BeamSize + k]}) <= j
  /\ Cardinality({m \in Beam : log_scores[b * BeamSize + m] >= log_scores[b * BeamSize + k]}) > j
(* C7: with length normalization disabled the scores of a batch item never
   increase with the beam index, and what beam_search returns for a batch
   item (n_best at most beam_size, no replacement of unknown words) is its
   highest-scoring final hypothesis (n_best = 1) or its n_best
   highest-scoring ones, best first. *)
C7_BestFirstWithoutNormalization ==
  /\ i >= 1 =>
       \A b \in Batch : \A k \in 0 .. (BeamSize - 2) :
         log_scores[b * BeamSize + k] >= log_scores[b * BeamSize + k + 1]
  /\ (pc = "done" /\ length_norm = <<>> /\ replace_calls = 0 /\ n_best <= BeamSize) =>
       \A b \in Batch :
         IF n_best = 1
         THEN \E k \in Beam :
                ScoreRank(b, k, 0) /\ result[b] = ExpectedSentence(outputs[b * BeamSize + k])
         ELSE /\ DOMAIN result[b] = 0 .. (n_best - 1)
              /\ \A j \in 0 .. (n_best - 1) : \E k \in Beam :
                   ScoreRank(b, k, j) /\ result[b][j] = ExpectedSentence(outputs[b * BeamSize + k])

C7_Witness ==
  /\ pc = "done"
  /\ length_norm = <<>>
  /\ replace_calls = 0
  /\ n_best = 1
  /\ \A b \in Batch : log_scores[b * BeamSize] > log_scores[b * BeamSize + 1]
  /\ \E b \in Batch : result[b] # <<>>

IsPermutation(f) ==
  /\ DOMAIN f = Beam
  /\ \A k \in Beam : \E j \in Beam : f[j] = k
OwnScore(b, k) == penalize(ln_lengths[b][k], ln_log_probs[b][k], ln_coff)
(* C8: length_normalize returns, for each batch item, that item's own
   normalized scores in non-increasing order, and its index row is the
   permutation of the item's hypotheses that gives that order. *)
C8_OwnScoresDescending ==
  ln_calls >= 1 =>
    \A b \in Batch :
      /\ IsPermutation(ln_first.indices[b])
      /\ \A k \in Beam : ln_first.probs[b][k] = OwnScore(b, ln_first.indices[b][k])
      /\ \A k \in 0 .. (BeamSize - 2) : ~Less(ln_first.probs[b][k], ln_first.probs[b][k + 1])

Normalized(r) == penalize(FirstEos(outputs[r]), log_scores[r], length_norm[1])
(* C9: with length normalization enabled and n_best = 1, beam_search returns
   for every batch item the hypothesis with the highest length-normalized
   score among that item's own final hypotheses. *)
C9_BestNormalizedReturned ==
  (pc = "done" /\ length_norm # <<>> /\ n_best = 1 /\ replace_calls = 0) =>
    \A b \in Batch : \E r \in RowsOf(b) :
      /\ result[b] = ExpectedSentence(outputs[r])
      /\ \A q \in RowsOf(b) : ~Less(Normalized(r), Normalized(q))

C10_Returned ==
  /\ ln_calls >= 1 => \A b \in Batch : IsPermutation(ln_first.indices[b])
  /\ ln_calls >= 2 => ln_second = ln_first
(* C10: two calls of length_normalize on the same lengths, scores and
   coefficient return the same scores and indices, the calls leave their
   inputs as they were, and every returned index row holds each beam index
   0 .. K-1 exactly once. *)
C10_PureAndPermutation ==
  /\ []C10_Returned
  /\ [][ln_lengths' = ln_lengths /\ ln_log_probs' = ln_log_probs /\ ln_coff' = ln_coff]_vars

C10_Witness ==
  /\ ln_calls = 2
  /\ \E b \in Batch : \E j, k \in Beam :
       j # k /\ ~Less(OwnScore(b, j), OwnScore(b, k)) /\ ~Less(OwnScore(b, k), OwnScore(b, j))
  /\ \E b \in Batch : ln_first.indices[b] # [k \in Beam |-> k]

Trimmed(b, k) == trim_and_itos(outputs[b * BeamSize + k], numpy_strict).val
(* C11: when beam_search applies replace_unknown, the call returns, every
   returned sentence is a list of tokens as long as the trimmed sentence it
   came from, and every position that did not hold "<unk>" holds its token
   as before; the attention covers at least as many target positions as the
   longest trimmed sentence has tokens. *)
C11_ReplacementKeepsLengthAndTokens ==
  /\ pc = "trimmed" => \A b \in Batch : \A k \in Beam : Len(Trimmed(b, k)) <= i
  /\ replace_calls > 0 =>
       /\ pc # "raised"
       /\ ~as_strings
       /\ pc = "replaced" =>
            \A b \in Batch : \A k \in Beam :
              /\ Len(translated_sentences[b][k]) = Len(Trimmed(b, k))
              /\ \A n \in 1 .. Len(Trimmed(b, k)) :
                   Trimmed(b, k)[n] # "<unk>" =>
                     translated_sentences[b][k][n] = Trimmed(b, k)[n]

NoModelCall == model_calls = [encode |-> 0, decode |-> 0]
(* C12: a call with a beam wider than the vocabulary ends with the error
   InvalidConfiguration, and neither the encoder nor the decoder has been
   invoked by then. *)
C12_WideBeamFailsBeforeModelRuns ==
  (BeamSize > vocab_size /\ pc # "start") =>
    /\ pc = "raised"
    /\ error = "InvalidConfiguration"
    /\ NoModelCall

(* C13: a call with n_best greater than beam_size ends with the error
   InvalidConfiguration before the model is invoked, and a call that returns
   with n_best > 1 returns n_best hypotheses for every batch item. *)
C13_NBestBeyondBeamRejected ==
  /\ n_best > BeamSize => (pc = "raised" /\ error = "InvalidConfiguration" /\ NoModelCall)
  /\ (pc = "done" /\ n_best > 1) =>
       \A b \in Batch : Cardinality(DOMAIN result[b]) = n_best

ReplaceAsked ==
  \/ replace_unk = "selector"
  \/ replace_unk = "None" /\ default_replace_unk = "selector"
TrimmedSentences == [b \in Batch |-> [k \in Beam |-> Trimmed(b, k)]]
WithoutReplacement ==
  select_best(IF length_norm = <<>> THEN TrimmedSentences
              ELSE take_by(TrimmedSentences,
                           length_normalize(
                             reshape_batch([r \in Rows |-> _length(outputs[r], numpy_strict).val]),
                             reshape_batch(log_scores), length_norm[1]).indices),
              n_best)
(* C14: once replace_unk has been read as requested, by the argument or by
   the constructor's default, with no src_tokens, the call has not raised
   and does not raise, replace_unknown has not been called, a warning has
   been emitted, the sentences are the trimmed ones, and what is returned is
   what the call returns with replace_unk disabled. *)
C14_MissingSourceTokensOnlyWarn ==
  (ReplaceAsked /\ src_tokens = <<>>) =>
    /\ pc \in {"replaced", "done"}
    /\ error = ""
    /\ warned
    /\ replace_calls = 0
    /\ ~as_strings
    /\ pc = "replaced" => translated_sentences = TrimmedSentences
    /\ pc = "done" => result = WithoutReplacement

C14_Witness ==
  /\ pc = "done"
  /\ replace_unk = "None" /\ default_replace_unk = "selector"
  /\ src_tokens = <<>>
  /\ warned
  /\ \E b \in Batch : \E k \in Beam : \E n \in 1 .. Len(Trimmed(b, k)) :
       Trimmed(b, k)[n] = "<unk>"

(* C15: after init_vars and after every timestep, outputs has B*K rows of
   max_len columns and log_scores has B*K entries, and row b*K + j holds a
   hypothesis of batch item b: one grown from that item's decoder outputs. *)
C15_RowsBelongToTheirBatchItem ==
  (i >= 1) =>
    /\ DOMAIN outputs = 0 .. (BatchSize * BeamSize - 1)
    /\ DOMAIN log_scores = 0 .. (BatchSize * BeamSize - 1)
    /\ \A r \in DOMAIN outputs : DOMAIN outputs[r] = 0 .. (MaxLen - 1)
    /\ \A b \in Batch : \A j \in Beam : origin[b * BeamSize + j] = b

C15_Witness ==
  /\ i >= 2
  /\ pc = "loop"
  /\ \E b \in Batch : b > 0 /\ Cardinality({row[r] : r \in RowsOf(b)}) = 1
  /\ \E b \in Batch : Cardinality({row[r] : r \in RowsOf(b)}) > 1

(* C17: after init_vars and after every compute_k_best, every row has <sos>
   in column 0 and 0 in every column after the last timestep written; a
   compute_k_best step leaves column 0 and the columns after its timestep as
   they were. *)
C17_SosFirstZeroBeyond ==
  /\ i >= 1 =>
       \A r \in Rows :
         /\ outputs[r][0] = init_tok
         /\ \A c \in (i + 1) .. (MaxLen - 1) : outputs[r][c] = 0
  /\ Stepped =>
       \A r \in Rows :
         /\ outputs[r][0] = prev_outputs[r][0]
         /\ \A c \in (i + 1) .. (MaxLen - 1) : outputs[r][c] = prev_outputs[r][c]

C17_Witness ==
  /\ Stepped
  /\ i < MaxLen - 1
  /\ \E r \in Rows : row[r] # r /\ outputs[r][i] # pad_tok

AfterInitVars == i = 1 /\ pc \in {"loop", "extract"}
(* C18: when init_vars returns, row b*K + j has <sos> in column 0, in column
   1 the token with the (j+1)-th highest probability in the first decoder
   output of batch item b, and that token's log-probability as its score;
   the K tokens of a batch item are pairwise distinct, and the row's encoder
   context is that of batch item b. *)
C18_InitialBeams ==
  AfterInitVars =>
    \A b \in Batch : \A j \in Beam :
      LET r == b * BeamSize + j
          tok == outputs[r][1]
      IN /\ outputs[r][0] = init_tok
         /\ tok \in Vocab
         /\ Cardinality({w \in Vocab : out[r][w] > out[r][tok]}) <= j
         /\ Cardinality({w \in Vocab : out[r][w] >= out[r][tok]}) > j
         /\ log_scores[r] = out[r][tok]
         /\ \A k \in Beam : k # j => outputs[b * BeamSize + k][1] # tok
         /\ e_outputs[r] = e_output[b]

C18_Witness ==
  /\ AfterInitVars
  /\ \E b \in Batch : out[b * BeamSize] # out[0]
  /\ \E r \in Rows : outputs[r][1] = eos_tok

SentinelCandidates(b) == {x \in CandidateScores(b) : cand_ix[x[1]][x[2]] = sentinel_id}
(* C19: every cell of outputs written so far holds a vocabulary id, never
   the filler id -1; in every compute_k_best step each batch item has at
   least K candidates that are not fillers and score strictly above every
   filler, and a finished parent row has at most one surviving row. *)
C19_SentinelNeverSurvives ==
  /\ i >= 1 => \A r \in Rows : \A c \in 0 .. i : outputs[r][c] \in Vocab
  /\ Stepped =>
       /\ \A b \in Batch :
            Cardinality({x \in CandidateScores(b) \ SentinelCandidates(b) :
                           \A y \in SentinelCandidates(b) : x[3] > y[3]}) >= BeamSize
       /\ \A p \in Rows :
            Finished(p) => Cardinality({r \in Rows : row[r] = p}) <= 1

C19_Witness ==
  /\ Stepped
  /\ \E b \in Batch : \A p \in RowsOf(b) : Finished(p)
  /\ \E p \in Rows : ~Finished(p)

(* C20: when the sentences are trimmed and replace_unknown can be called,
   the attention row r that beam_search hands to it was computed from the
   prefix of the hypothesis that row r of outputs holds. *)
C20_AttentionRowsAligned ==
  (pc = "trimmed" /\ visited # <<>>) =>
    \A r \in Rows : \A c \in 0 .. (i - 1) : attn[r][c] = outputs[r][c]

(* C16: with the toy decoder, every sentence of the batch decoded alike (so
   that each is decoded as a batch of one would be), n_best = 1, no length
   normalization and no replacement of unknown words, beam_search does not
   raise and returns ["a"]; the second final beam differs from the first in
   some token and has a strictly lower score. *)
C16_ToyDecoderReturnsA ==
  (lockstep /\ replace_calls = 0) =>
    /\ pc # "raised"
    /\ (pc = "done" /\ n_best = 1 /\ length_norm = <<>> /\ ~ReplaceAsked) =>
         \A b \in Batch :
           /\ result[b] = <<"a">>
           /\ \E c \in Cols : outputs[b * BeamSize + 1][c] # outputs[b * BeamSize][c]
           /\ log_scores[b * BeamSize + 1] < log_scores[b * BeamSize]

====
